---- MODULE Spec2Model ----
(***************************************************************************)
(* Model of the middleware dispatch engine of src/engine.go: the           *)
(* RouterGroup tree (Group, Use, Handle, allHandlers), the Engine          *)
(* (New, NotFound404, handle404) and the per-request Context (Next, Abort, *)
(* Fail, Error, Set, Get) with its response writer.                        *)
(*                                                                         *)
(* Go slices are modelled as (array, length) pairs over a heap of backing  *)
(* arrays, so that append writes in place when the array has room and      *)
(* allocates otherwise.  The cursor Context.index is an int8 and is        *)
(* incremented modulo 2^8.                                                 *)
(***************************************************************************)
EXTENDS Integers, Sequences, FiniteSets, TLC

VARIABLES
    heap,         \* backing arrays of all []HandlerFunc slices
    groups,       \* the RouterGroup objects; groups[1] is the Engine's root
    handlers404,  \* Engine.handlers404
    routes,       \* entries registered in the path dispatcher by Handle
    call,         \* the Handle call in progress (its allHandlers recursion)
    crashed,      \* the process died of a fatal stack overflow
    usedAfter,    \* history: groups an ancestor of which got middleware by
                  \* Use after the group had been created
    HTMLTemplates, \* Engine.HTMLTemplates is set (a template set is loaded)
    phase,        \* "idle", "run", "done", "panicked": the request served
    kind,         \* who built the Context: "none", "route" (and which), "404"
    chain,        \* Context.handlers
    index,        \* Context.index (int8)
    Keys,         \* Context.Keys
    Errors,       \* Context.Errors
    status,       \* responseWriter.status
    stack,        \* the goroutine's call stack, innermost frame last
    panicked,     \* the panic that ended the request, "" if none
    notFound,     \* handle404 emitted the bare http.NotFound response
    ret,          \* value returned by the last Get or EnsureBody
    log,          \* history of the request: calls, returns, aborts
    budget        \* operations the unscripted handlers may still perform

rvars == <<heap, groups, handlers404, routes, call, crashed, usedAfter,
           HTMLTemplates>>
cvars == <<phase, kind, chain, index, Keys, Errors, status, stack,
           panicked, notFound, ret, log, budget>>
vars == <<heap, groups, handlers404, routes, call, crashed, usedAfter,
          HTMLTemplates, phase, kind, chain, index, Keys, Errors, status, stack,
          panicked, notFound, ret, log, budget>>

(***************************************************************************)
(* Bounds                                                                  *)
(***************************************************************************)
MaxGroups == 3
MaxUses == 1
MaxRoutes == 1
MaxFlatRoutes == 2
MaxStack == 3
MaxOps == 3

(***************************************************************************)
(* Program constants and integer width                                     *)
(***************************************************************************)
MaxInt8 == 127

AbortIndex == MaxInt8 \div 2

Int8(n) == ((n + 128) % 256) - 128

(***************************************************************************)
(* Slices over the heap                                                    *)
(***************************************************************************)
NilFunc == "nil"

NilSlice == [arr |-> 0, len |-> 0]

Cap(h, s) == IF s.arr = 0 THEN 0 ELSE Len(h[s.arr])

Elems(h, s) == IF s.arr = 0 THEN <<>> ELSE SubSeq(h[s.arr], 1, s.len)

SpareCaps == {0, 1}

\* a fresh backing array holding es, with `spare` unused slots after it
Alloc(h, es, spare) ==
    [heap  |-> Append(h, es \o [i \in 1..spare |-> NilFunc]),
     slice |-> [arr |-> Len(h) + 1, len |-> Len(es)]]

\* the built-in append(s, es...)
AppendSlice(h, s, es, spare) ==
    IF Len(es) = 0
    THEN [heap |-> h, slice |-> s]
    ELSE IF s.len + Len(es) <= Cap(h, s)
         THEN [heap  |-> [h EXCEPT ![s.arr] =
                            [i \in 1..Len(h[s.arr]) |->
                               IF i > s.len /\ i <= s.len + Len(es)
                               THEN es[i - s.len] ELSE h[s.arr][i]]],
               slice |-> [arr |-> s.arr, len |-> s.len + Len(es)]]
         ELSE Alloc(h, Elems(h, s) \o es, spare)

(***************************************************************************)
(* Garbage collection: backing arrays no slice refers to are dropped and   *)
(* the remaining ones are numbered in the order in which the slices reach  *)
(* them (addresses are not observable).                                     *)
(***************************************************************************)
Refs(gs, h404, rs, ch) ==
    [i \in DOMAIN gs |-> gs[i].Handlers.arr] \o <<h404.arr>>
       \o [i \in DOMAIN rs |-> rs[i].chain.arr] \o <<ch.arr>>

Live(refs) == {refs[i] : i \in DOMAIN refs} \ {0}

First(refs, a) == CHOOSE i \in DOMAIN refs :
                     refs[i] = a /\ \A j \in 1..(i - 1) : refs[j] # a

Renum(refs, a) ==
    IF a = 0 THEN 0
    ELSE Cardinality({b \in Live(refs) : First(refs, b) <= First(refs, a)})

ReSlice(refs, s) == [arr |-> Renum(refs, s.arr), len |-> s.len]

Compact(h, refs) ==
    [k \in 1..Cardinality(Live(refs)) |->
        h[CHOOSE a \in Live(refs) : Renum(refs, a) = k]]

\* the next values of the heap and of every slice that points into it
Store(h, gs, h404, rs, ch) ==
    LET live == Refs(gs, h404, rs, ch) IN
    /\ heap' = Compact(h, live)
    /\ groups' = [i \in DOMAIN gs |->
                    [gs[i] EXCEPT !.Handlers = ReSlice(live, gs[i].Handlers)]]
    /\ handlers404' = ReSlice(live, h404)
    /\ routes' = [i \in DOMAIN rs |->
                    [rs[i] EXCEPT !.chain = ReSlice(live, rs[i].chain)]]
    /\ chain' = ReSlice(live, ch)

(***************************************************************************)
(* Arguments the operations are called with                                *)
(***************************************************************************)
Components == {<<"x">>}
PathArgs == {<<"a">>, <<"b">>}
UseArgs == {<<"M1">>}
GroupArgs == {<<>>, <<"M2">>, <<"M3">>}
HandleArgs == {<<"H">>, <<"W">>}
NotFoundArgs == {<<"W">>, <<"M3", "H">>, <<"A", "H">>}

\* path.Join on cleaned segment lists: empty and "." segments vanish
PathJoin(a, b) == SelectSeq(a \o b, LAMBDA x : x # "" /\ x # ".")

(***************************************************************************)
(* Engine and RouterGroup                                                  *)
(***************************************************************************)
NoCall == [active |-> FALSE, g |-> 0, path |-> <<>>, hs |-> <<>>, depth |-> 0,
           g0 |-> 0, hs0 |-> <<>>]

\* New(): the root group {nil, "/", nil, engine}
NewRoot == [Handlers |-> NilSlice, prefix |-> <<>>, parent |-> 0]

Idle == phase = "idle" /\ ~call.active /\ ~crashed

Parent(g) == groups[g].parent

\* a is a proper ancestor of d in the group tree
RECURSIVE IsAncestor(_, _)
IsAncestor(a, d) ==
    /\ d # 0
    /\ groups[d].parent # 0
    /\ (groups[d].parent = a \/ IsAncestor(a, groups[d].parent))

\* group.Handlers = append(group.Handlers, middleware...)
Use(g, middleware) ==
    /\ Idle
    /\ groups[g].Handlers.len + Len(middleware) <= MaxUses
    /\ \E spare \in SpareCaps :
         LET r == AppendSlice(heap, groups[g].Handlers, middleware, spare) IN
         Store(r.heap, [groups EXCEPT ![g].Handlers = r.slice],
               handlers404, routes, chain)
    /\ usedAfter' = usedAfter \cup {d \in DOMAIN groups : IsAncestor(g, d)}
    /\ UNCHANGED <<call, crashed, phase, kind, index, Keys, Errors, status,
                   stack, panicked, notFound, ret, log, budget>>
    /\ UNCHANGED HTMLTemplates

\* the same literal with the parent field set to the root of the tree
NewGroupUnderRoot(g, component, handlers) ==
    [Handlers |-> handlers,
     prefix   |-> PathJoin(groups[g].prefix, component),
     parent   |-> 1]

\* &RouterGroup{Handlers: handlers, parent: group, prefix: prefix, engine: ...}
NewGroup(g, component, handlers) ==
    [Handlers |-> handlers,
     prefix   |-> PathJoin(groups[g].prefix, component),
     parent   |-> g]

\* template.ParseGlob(pattern) returns an error
BadPattern(pattern) == pattern = "["

\* engine.HTMLTemplates = template.Must(template.ParseGlob(pattern)):
\* Must panics on the error of ParseGlob, which ends the process at startup
LoadHTMLTemplate(pattern) ==
    /\ Idle
    /\ IF BadPattern(pattern)
       THEN crashed' = TRUE /\ UNCHANGED HTMLTemplates
       ELSE HTMLTemplates' = TRUE /\ UNCHANGED crashed
    /\ UNCHANGED <<heap, groups, handlers404, routes, call, usedAfter>>
    /\ UNCHANGED cvars

\* Group: the child refers to its parent and holds the given middleware
Group(g, component, handlers) ==
    /\ Idle
    /\ Len(groups) < MaxGroups
    /\ LET r == IF Len(handlers) = 0
                THEN [heap |-> heap, slice |-> NilSlice]
                ELSE Alloc(heap, handlers, 0) IN
         Store(r.heap, Append(groups, NewGroup(g, component, r.slice)),
               handlers404, routes, chain)
    /\ UNCHANGED <<call, crashed, usedAfter, phase, kind, index, Keys, Errors,
                   status, stack, panicked, notFound, ret, log, budget>>
    /\ UNCHANGED HTMLTemplates

\* engine.handlers404 = handlers
NotFound404(handlers) ==
    /\ Idle
    /\ LET r == Alloc(heap, handlers, 0) IN
         Store(r.heap, groups, r.slice, routes, chain)
    /\ UNCHANGED <<call, crashed, usedAfter, phase, kind, index, Keys, Errors,
                   status, stack, panicked, notFound, ret, log, budget>>
    /\ UNCHANGED HTMLTemplates

\* Handle up to its call of group.allHandlers(handlers); the dispatcher
\* refuses a path that is registered already
Handle(g, p, handlers) ==
    /\ Idle
    /\ \A i \in DOMAIN routes : routes[i].path # PathJoin(groups[g].prefix, p)
    /\ call' = [active |-> TRUE, g |-> g,
                path |-> PathJoin(groups[g].prefix, p),
                hs |-> handlers, depth |-> 0,
                g0 |-> g, hs0 |-> handlers]
    /\ UNCHANGED <<heap, groups, handlers404, routes, crashed, usedAfter>>
    /\ UNCHANGED cvars
    /\ UNCHANGED HTMLTemplates

\* target of the recursive call in allHandlers: the receiver itself
Recurse(g) == g

\* one invocation of allHandlers; when it returns to Handle, the rest of
\* Handle registers the route with the composed chain
AllHandlers ==
    /\ call.active /\ ~crashed
    /\ call.depth < MaxStack
    /\ LET r == AppendSlice(heap, groups[call.g].Handlers, call.hs, 0) IN
         IF groups[call.g].parent # 0
         THEN /\ call' = [call EXCEPT !.g = Recurse(call.g),
                                      !.hs = Elems(r.heap, r.slice),
                                      !.depth = call.depth + 1]
              /\ Store(r.heap, groups, handlers404, routes, chain)
         ELSE /\ call' = NoCall
              /\ Store(r.heap, groups, handlers404,
                       Append(routes, [path |-> call.path,
                                       group |-> call.g0,
                                       own   |-> call.hs0,
                                       chain |-> r.slice]),
                       chain)
    /\ UNCHANGED <<crashed, usedAfter, phase, kind, index, Keys, Errors, status,
                   stack, panicked, notFound, ret, log, budget>>
    /\ UNCHANGED HTMLTemplates

\* the recursion outgrows the goroutine stack: fatal error, the process dies
StackOverflow ==
    /\ call.active /\ ~crashed
    /\ call.depth = MaxStack
    /\ crashed' = TRUE
    /\ UNCHANGED <<heap, groups, handlers404, routes, call, usedAfter>>
    /\ UNCHANGED cvars
    /\ UNCHANGED HTMLTemplates

(***************************************************************************)
(* Handlers.  A handler is a program over the Context; the scripted ones   *)
(* perform a fixed list of operations and return, the unscripted handler   *)
(* "X" performs any operations, in any order, while the budget lasts.      *)
(***************************************************************************)
Op(o, code, key, val, err, meta) ==
    [op |-> o, code |-> code, key |-> key, val |-> val, err |-> err, meta |-> meta]

NoErr == [msg |-> ""]

OpNext == Op("Next", 0, "", "", NoErr, "")
OpAbort(code) == Op("Abort", code, "", "", NoErr, "")
OpFail(code, err) == Op("Fail", code, "", "", err, "")
OpError(err, meta) == Op("Error", 0, "", "", err, meta)
OpSet(key, val) == Op("Set", 0, key, val, NoErr, "")
OpGet(key) == Op("Get", 0, key, "", NoErr, "")
OpWriteHeader(code) == Op("WriteHeader", code, "", "", NoErr, "")
OpJSON(code, obj) == Op("JSON", code, "", "", obj.err, obj.name)
OpXML(code, obj) == Op("XML", code, "", "", obj.err, obj.name)
OpHTML(code, name, data) == Op("HTML", code, name, "", data.err, data.name)
OpEnsureBody(item) == Op("EnsureBody", 0, "", "", item.decode, item.valid.msg)

NextCalls == 65

\* Recovery(): a middleware that runs the rest of the chain by c.Next()
\* under a deferred recover
RecoveryScript == <<OpNext>>

\* Logger(): c.Next(), then the report of the request
LoggerScript == <<OpNext>>

Script(h) ==
    CASE h \in {"M", "M1", "M2", "M3"} -> <<OpNext>>
      [] h = "Recovery" -> RecoveryScript
      [] h = "Logger" -> LoggerScript
      [] h = "H"  -> <<>>
      [] h = "W"  -> <<OpWriteHeader(200)>>
      [] h = "A"  -> <<OpAbort(403)>>
      [] h = "AN" -> <<OpAbort(401)>> \o [i \in 1..NextCalls |-> OpNext]
      [] h = "NA" -> <<OpNext, OpAbort(401)>>
      [] OTHER    -> <<>>

Free(h) == h = "X"

AbortCodes == {401, 403}
FailCodes == {500}
WriteCodes == {200}
Errs == {[msg |-> "boom"]}
Metas == {"m1"}
KeyNames == {"k1", "k2"}
NilVal == "nil"
Vals == {"v1", "v2", NilVal}

\* err.Error()
ErrMsg(err) == err.msg

\* a request body seen through ParseBody: the error of decoding it into the
\* item (none when it decodes) and the error of validating the item
DecodeErrs == {NoErr, [msg |-> "EOF"]}
ValidateErrs == {NoErr, [msg |-> "invalid"]}
Items == [decode : DecodeErrs, valid : ValidateErrs]

\* values handed to JSON, XML and HTML, each with the error its encoding
\* or rendering ends with (none when it encodes)
Objs == {[name |-> "h", err |-> NoErr],
         [name |-> "chan", err |-> [msg |-> "unsupported type"]]}
EmitCodes == {201}
TemplateNames == {"index"}
Patterns == {"*.tmpl", "["}

(***************************************************************************)
(* Context                                                                 *)
(***************************************************************************)
NilKeys == [alloc |-> FALSE, m |-> <<>>]

NoRequest == [k |-> "none", route |-> 0]

Frame(k, h, pos, s) ==
    [kind |-> k, h |-> h, pos |-> pos, pc |-> 1, nexts |-> 0, aborts |-> 0, s |-> s]

Top == stack[Len(stack)]

\* an entry of the request's history
Event(e, pos, key, val, code) ==
    [ev |-> e, pos |-> pos, key |-> key, val |-> val, code |-> code]

InHandler == phase = "run" /\ Len(stack) > 0 /\ Top.kind = "handler"

\* the running handler's next statement may be operation o
CanDo(o) ==
    /\ InHandler
    /\ IF Free(Top.h)
       THEN budget > 0
       ELSE Top.pc <= Len(Script(Top.h)) /\ Script(Top.h)[Top.pc] = o

\* the running handler moves past the statement it just executed
Advance ==
    /\ stack' = [stack EXCEPT ![Len(stack)].pc = @ + 1]
    /\ budget' = IF Free(Top.h) THEN budget - 1 ELSE budget

\* createContext: Writer {w, 0}, index -1, no Keys, no Errors
CreateContext(k, r) ==
    /\ phase' = "run"
    /\ kind' = [k |-> k, route |-> r]
    /\ index' = -1
    /\ Keys' = NilKeys
    /\ Errors' = <<>>
    /\ status' = 0
    /\ stack' = <<Frame(k, "", -1, 0)>>
    /\ panicked' = ""
    /\ notFound' = FALSE
    /\ ret' = NilVal
    /\ log' = <<>>
    /\ budget' = MaxOps

\* the dispatcher matched route r: group.createContext(w, r, params, handlers)
Serve(r) ==
    /\ Idle
    /\ Store(heap, groups, handlers404, routes, routes[r].chain)
    /\ CreateContext("route", r)
    /\ UNCHANGED <<call, crashed, usedAfter>>
    /\ UNCHANGED HTMLTemplates

\* handle404 up to its call of c.Next(): engine.allHandlers(engine.handlers404)
\* on the root, then createContext
Handle404 ==
    /\ Idle
    /\ LET r == AppendSlice(heap, groups[1].Handlers,
                              Elems(heap, handlers404), 0) IN
         Store(r.heap, groups, handlers404, routes, r.slice)
    /\ CreateContext("404", 0)
    /\ UNCHANGED <<call, crashed, usedAfter>>
    /\ UNCHANGED HTMLTemplates

\* c.Next() is entered: c.index++; s := int8(len(c.handlers))
CallNext ==
    /\ phase = "run" /\ Len(stack) > 0
    /\ \/ Top.kind \in {"route", "404"} /\ Top.pc = 1
       \/ CanDo(OpNext)
    /\ index' = Int8(index + 1)
    /\ stack' = Append([stack EXCEPT ![Len(stack)].pc = @ + 1,
                                     ![Len(stack)].nexts = @ + 1],
                       Frame("next", "", Top.pos, Int8(chain.len)))
    /\ budget' = IF Top.kind = "handler" /\ Free(Top.h) THEN budget - 1 ELSE budget
    /\ log' = Append(log, Event("next", Top.pos, "", "", 0))
    /\ UNCHANGED <<phase, kind, chain, Keys, Errors, status, panicked, notFound, ret>>
    /\ UNCHANGED rvars

\* the loop of Next: test c.index < s, then call c.handlers[c.index](c),
\* or leave the loop and return to the caller of Next
NextLoop ==
    /\ phase = "run" /\ Len(stack) > 0
    /\ Top.kind = "next"
    /\ IF index < Top.s
       THEN IF index >= 0 /\ index < chain.len
            THEN /\ stack' = Append(stack,
                        Frame("handler", Elems(heap, chain)[index + 1], index, 0))
                 /\ log' = Append(log, Event("call", index, "", "", 0))
                 /\ UNCHANGED <<phase, panicked>>
            ELSE /\ phase' = "panicked"
                 /\ panicked' = "index out of range"
                 /\ stack' = <<>>
                 /\ UNCHANGED log
       ELSE /\ stack' = SubSeq(stack, 1, Len(stack) - 1)
            /\ log' = Append(log, Event("nextret", Top.pos, "", "", 0))
            /\ UNCHANGED <<phase, panicked>>
    /\ UNCHANGED <<kind, chain, index, Keys, Errors, status, notFound, ret, budget>>
    /\ UNCHANGED rvars

\* a loop that is left after the first handler it has called
LoopPostBreak == index' = Int8(chain.len)

\* the post statement of the loop of Next: c.index++
LoopPost == index' = Int8(index + 1)

\* the running handler returns; the loop that called it does c.index++
Return ==
    /\ InHandler
    /\ Free(Top.h) \/ Top.pc > Len(Script(Top.h))
    /\ stack' = SubSeq(stack, 1, Len(stack) - 1)
    /\ LoopPost
    /\ log' = Append(log, Event(IF Top.nexts = 0 /\ Top.aborts = 0
                                 THEN "plainret" ELSE "ret", Top.pos, "", "", 0))
    /\ UNCHANGED <<phase, kind, chain, Keys, Errors, status, panicked,
                   notFound, ret, budget>>
    /\ UNCHANGED rvars

\* responseWriter.WriteHeader: rw.status = s
WriteHeaderEff(s) == status' = s

\* responseWriter.Written
Written == status # 0

\* a handler writes a status through c.Writer
WriteHeader(code) ==
    /\ CanDo(OpWriteHeader(code))
    /\ WriteHeaderEff(code)
    /\ Advance
    /\ log' = Append(log, Event("status", Top.pos, "", "", code))
    /\ UNCHANGED <<phase, kind, chain, index, Keys, Errors, panicked, notFound, ret>>
    /\ UNCHANGED rvars

\* c.Writer.WriteHeader(code); c.index = AbortIndex
AbortEff(code) ==
    /\ WriteHeaderEff(code)
    /\ index' = AbortIndex

Abort(code) ==
    /\ CanDo(OpAbort(code))
    /\ AbortEff(code)
    /\ stack' = [stack EXCEPT ![Len(stack)].pc = @ + 1,
                              ![Len(stack)].aborts = @ + 1]
    /\ budget' = IF Free(Top.h) THEN budget - 1 ELSE budget
    /\ log' = Append(log, Event("abort", Top.pos, "", "", code))
    /\ UNCHANGED <<phase, kind, chain, Keys, Errors, panicked, notFound, ret>>
    /\ UNCHANGED rvars

\* an Error that keeps only the entry it was called with
ErrorEffReplace(err, meta) ==
    Errors' = <<[Message |-> ErrMsg(err), Meta |-> meta]>>

\* c.Errors = append(c.Errors, ErrorMsg{Message: err.Error(), Meta: meta})
ErrorEff(err, meta) ==
    Errors' = Append(Errors, [Message |-> ErrMsg(err), Meta |-> meta])

Error(err, meta) ==
    /\ CanDo(OpError(err, meta))
    /\ ErrorEff(err, meta)
    /\ Advance
    /\ UNCHANGED <<phase, kind, chain, index, Keys, status, panicked,
                   notFound, ret, log>>
    /\ UNCHANGED rvars

\* the arguments of Error in the order of Fail's doc comment
FailEffSwapped(code, err) ==
    /\ Errors' = Append(Errors, [Message |-> "Operation aborted",
                                 Meta |-> ErrMsg(err)])
    /\ AbortEff(code)

\* c.Error(err, "Operation aborted"); c.Abort(code)
FailEff(code, err) ==
    /\ ErrorEff(err, "Operation aborted")
    /\ AbortEff(code)

Fail(code, err) ==
    /\ CanDo(OpFail(code, err))
    /\ FailEff(code, err)
    /\ stack' = [stack EXCEPT ![Len(stack)].pc = @ + 1,
                              ![Len(stack)].aborts = @ + 1]
    /\ budget' = IF Free(Top.h) THEN budget - 1 ELSE budget
    /\ log' = Append(log, Event("abort", Top.pos, "", "", code))
    /\ UNCHANGED <<phase, kind, chain, Keys, panicked, notFound, ret>>
    /\ UNCHANGED rvars

\* Validate(c, item): the outcome of the validation pass over item
Validate(item) == item.valid

\* a ParseBody that returns the error of the decoder
ParseBodyDecodeErr(item) == item.decode

\* if err := decoder.Decode(&item); err != nil { return Validate(c, item) }
\* else { return err }
ParseBody(item) ==
    LET err == item.decode IN
    IF err # NoErr THEN Validate(item) ELSE err

\* if err := c.ParseBody(item); err != nil { c.Fail(400, err); return false }
\* return true
EnsureBody(item) ==
    /\ CanDo(OpEnsureBody(item))
    /\ LET err == ParseBody(item) IN
         IF err # NoErr
         THEN /\ FailEff(400, err)
              /\ ret' = "false"
              /\ stack' = [stack EXCEPT ![Len(stack)].pc = @ + 1,
                                        ![Len(stack)].aborts = @ + 1]
              /\ log' = log \o <<Event("parse", Top.pos, item.decode.msg,
                                        item.valid.msg, 0),
                                  Event("abort", Top.pos, "", "", 400)>>
         ELSE /\ ret' = "true"
              /\ stack' = [stack EXCEPT ![Len(stack)].pc = @ + 1]
              /\ log' = Append(log, Event("parse", Top.pos, item.decode.msg,
                                          item.valid.msg, 0))
              /\ UNCHANGED <<index, Errors, status>>
    /\ budget' = IF Free(Top.h) THEN budget - 1 ELSE budget
    /\ UNCHANGED <<phase, kind, chain, Keys, panicked, notFound>>
    /\ UNCHANGED rvars

\* a helper that encodes before it writes any status, and on an error
\* writes the 500 only
EmitEffBuffered(code, err, meta) ==
    IF err # NoErr
    THEN /\ ErrorEff(err, meta)
         /\ WriteHeaderEff(500)
         /\ log' = Append(log, Event("status", Top.pos, "", "", 500))
    ELSE /\ WriteHeaderEff(code)
         /\ Errors' = Errors
         /\ log' = Append(log, Event("status", Top.pos, "", "", code))

\* the statements JSON, XML and HTML share, err being the error of the
\* encoder or of the template: c.Writer.WriteHeader(code); ...;
\* if err != nil { c.Error(err, meta); http.Error(c.Writer, err.Error(), 500) }
\* where http.Error calls c.Writer.WriteHeader(500)
EmitEff(code, err, meta) ==
    IF err # NoErr
    THEN /\ ErrorEff(err, meta)
         /\ WriteHeaderEff(500)
         /\ log' = log \o <<Event("status", Top.pos, "", "", code),
                             Event("status", Top.pos, "", "", 500)>>
    ELSE /\ WriteHeaderEff(code)
         /\ Errors' = Errors
         /\ log' = Append(log, Event("status", Top.pos, "", "", code))

JSON(code, obj) ==
    /\ CanDo(OpJSON(code, obj))
    /\ EmitEff(code, obj.err, obj)
    /\ Advance
    /\ UNCHANGED <<phase, kind, chain, index, Keys, panicked, notFound, ret>>
    /\ UNCHANGED rvars

\* the same statements as JSON, with json.NewEncoder as well
XML(code, obj) ==
    /\ CanDo(OpXML(code, obj))
    /\ EmitEff(code, obj.err, obj)
    /\ Advance
    /\ UNCHANGED <<phase, kind, chain, index, Keys, panicked, notFound, ret>>
    /\ UNCHANGED rvars

\* c.engine.HTMLTemplates.ExecuteTemplate dereferences the template set:
\* without one loaded the call panics, after the status was written
HTML(code, name, data) ==
    /\ CanDo(OpHTML(code, name, data))
    /\ IF HTMLTemplates
       THEN /\ EmitEff(code, data.err, [name |-> name, data |-> data])
            /\ Advance
            /\ UNCHANGED <<phase, panicked>>
       ELSE /\ WriteHeaderEff(code)
            /\ log' = Append(log, Event("status", Top.pos, "", "", code))
            /\ phase' = "panicked"
            /\ panicked' = "nil pointer dereference"
            /\ stack' = <<>>
            /\ budget' = IF Free(Top.h) THEN budget - 1 ELSE budget
            /\ UNCHANGED Errors
    /\ UNCHANGED <<kind, chain, index, Keys, notFound, ret>>
    /\ UNCHANGED rvars

\* a Set that keeps the value a key already has
SetEffKeepFirst(key, value) ==
    Keys' = [alloc |-> TRUE,
             m |-> [k \in DOMAIN Keys.m \cup {key} |->
                      IF k \in DOMAIN Keys.m THEN Keys.m[k] ELSE value]]

\* lazily allocate c.Keys, then c.Keys[key] = value
SetEff(key, value) ==
    Keys' = [alloc |-> TRUE,
             m |-> [k \in DOMAIN Keys.m \cup {key} |->
                      IF k = key THEN value ELSE Keys.m[k]]]

Set(key, value) ==
    /\ CanDo(OpSet(key, value))
    /\ SetEff(key, value)
    /\ Advance
    /\ log' = Append(log, Event("set", Top.pos, key, value, 0))
    /\ UNCHANGED <<phase, kind, chain, index, Errors, status, panicked,
                   notFound, ret>>
    /\ UNCHANGED rvars

\* item, ok = c.Keys[key], or nil, false when c.Keys is nil
Lookup(key) ==
    IF Keys.alloc /\ key \in DOMAIN Keys.m
    THEN [item |-> Keys.m[key], ok |-> TRUE]
    ELSE [item |-> NilVal, ok |-> FALSE]

\* if !ok || item == nil { panic(...) }
GetPanics(key) == ~Lookup(key).ok \/ Lookup(key).item = NilVal

Get(key) ==
    /\ CanDo(OpGet(key))
    /\ IF GetPanics(key)
       THEN /\ phase' = "panicked"
            /\ panicked' = "Keys doesn't exist"
            /\ stack' = <<>>
            /\ budget' = IF Free(Top.h) THEN budget - 1 ELSE budget
            /\ log' = Append(log, Event("getpanic", Top.pos, key, "", 0))
            /\ UNCHANGED ret
       ELSE /\ ret' = Lookup(key).item
            /\ Advance
            /\ log' = Append(log, Event("get", Top.pos, key, Lookup(key).item, 0))
            /\ UNCHANGED <<phase, panicked>>
    /\ UNCHANGED <<kind, chain, index, Keys, Errors, status, notFound>>
    /\ UNCHANGED rvars

\* handle404 calling http.NotFound whatever the chain wrote
NotFoundAlways == kind.k = "404"

\* if !c.Writer.Written() { http.NotFound(w, req) }
NotFoundCheck == kind.k = "404" /\ ~Written

\* c.Next() returned to the dispatcher; handle404 then tests
\* !c.Writer.Written() and calls http.NotFound
ServeDone ==
    /\ phase = "run" /\ Len(stack) > 0
    /\ Top.kind \in {"route", "404"} /\ Top.pc = 2
    /\ phase' = "done"
    /\ stack' = <<>>
    /\ notFound' = NotFoundCheck
    /\ UNCHANGED <<kind, chain, index, Keys, Errors, status, panicked,
                   ret, log, budget>>
    /\ UNCHANGED rvars

\* the request is over and its Context is dropped
Release ==
    /\ phase \in {"done", "panicked"}
    /\ phase' = "idle"
    /\ kind' = NoRequest
    /\ index' = -1
    /\ Keys' = NilKeys
    /\ Errors' = <<>>
    /\ status' = 0
    /\ stack' = <<>>
    /\ panicked' = ""
    /\ notFound' = FALSE
    /\ ret' = NilVal
    /\ log' = <<>>
    /\ budget' = 0
    /\ Store(heap, groups, handlers404, routes, NilSlice)
    /\ UNCHANGED <<call, crashed, usedAfter>>
    /\ UNCHANGED HTMLTemplates

(***************************************************************************)
(* Specification of the engine: construction, configuration, requests      *)
(***************************************************************************)
\* an Engine right after construction, with root group root over heap h
EngineInit(h, root) ==
    /\ heap = h
    /\ groups = <<root>>
    /\ handlers404 = NilSlice
    /\ routes = <<>>
    /\ call = NoCall
    /\ crashed = FALSE
    /\ usedAfter = {}
    /\ HTMLTemplates = FALSE
    /\ phase = "idle"
    /\ kind = NoRequest
    /\ chain = NilSlice
    /\ index = -1
    /\ Keys = NilKeys
    /\ Errors = <<>>
    /\ status = 0
    /\ stack = <<>>
    /\ panicked = ""
    /\ notFound = FALSE
    /\ ret = NilVal
    /\ log = <<>>
    /\ budget = 0

\* New()
Init == EngineInit(<<>>, NewRoot)

Next ==
    \/ \E g \in DOMAIN groups, mw \in UseArgs : Use(g, mw)
    \/ \E g \in DOMAIN groups, c \in Components, hs \in GroupArgs : Group(g, c, hs)
    \/ \E hs \in NotFoundArgs : NotFound404(hs)
    \/ \E g \in DOMAIN groups, p \in PathArgs, hs \in HandleArgs :
          Len(routes) < MaxRoutes /\ Handle(g, p, hs)
    \/ AllHandlers
    \/ StackOverflow
    \/ \E r \in DOMAIN routes : Serve(r)
    \/ Handle404
    \/ CallNext
    \/ NextLoop
    \/ Return
    \/ \E code \in WriteCodes : WriteHeader(code)
    \/ \E code \in AbortCodes : Abort(code)
    \/ ServeDone
    \/ Release

Spec == Init /\ [][Next]_vars

(***************************************************************************)
(* Specification of an Engine without child groups: middleware, fallback   *)
(* chain and routes all on the root, matched and unmatched requests        *)
(***************************************************************************)
NextFlat ==
    \/ \E mw \in UseArgs : Use(1, mw)
    \/ \E pattern \in Patterns : LoadHTMLTemplate(pattern)
    \/ \E hs \in NotFoundArgs : NotFound404(hs)
    \/ \E p \in PathArgs, hs \in HandleArgs :
          Len(routes) < MaxFlatRoutes /\ Handle(1, p, hs)
    \/ AllHandlers
    \/ \E r \in DOMAIN routes : Serve(r)
    \/ Handle404
    \/ CallNext
    \/ NextLoop
    \/ Return
    \/ \E code \in WriteCodes : WriteHeader(code)
    \/ \E code \in AbortCodes : Abort(code)
    \/ ServeDone
    \/ Release

SpecFlat == Init /\ [][NextFlat]_vars

(***************************************************************************)
(* Specification of an Engine built by Default(): groups, routes on any    *)
(* group, fallback chain, matched and unmatched requests                   *)
(***************************************************************************)
DefaultMiddleware == <<"Recovery", "Logger">>

DefaultGroupArgs == {<<>>, <<"M2">>}
DefaultHandleArgs == {<<"H">>}
DefaultNotFoundArgs == {<<"W">>}

\* Default(): engine := New(); engine.Use(Recovery(), Logger())
InitDefault ==
    \E spare \in SpareCaps :
        LET r == AppendSlice(<<>>, NilSlice, DefaultMiddleware, spare) IN
        EngineInit(r.heap, [NewRoot EXCEPT !.Handlers = r.slice])

NextDefault ==
    \/ \E g \in DOMAIN groups, c \in Components, hs \in DefaultGroupArgs :
          Group(g, c, hs)
    \/ \E hs \in DefaultNotFoundArgs : NotFound404(hs)
    \/ \E g \in DOMAIN groups, p \in PathArgs, hs \in DefaultHandleArgs :
          Len(routes) < MaxRoutes /\ Handle(g, p, hs)
    \/ AllHandlers
    \/ StackOverflow
    \/ \E r \in DOMAIN routes : Serve(r)
    \/ Handle404
    \/ CallNext
    \/ NextLoop
    \/ Return
    \/ \E code \in WriteCodes : WriteHeader(code)
    \/ ServeDone
    \/ Release

SpecDefault == InitDefault /\ [][NextDefault]_vars

(***************************************************************************)
(* Specification of one Context: a request on a route whose chain was      *)
(* registered on the root with Handle, run by arbitrary handlers           *)
(***************************************************************************)
Rep(n, h) == [i \in 1..n |-> h]

LongChain == 64

CtxChains ==
    {<<>>, <<"X">>, <<"X", "X">>, <<"M", "X", "H">>, <<"M", "A", "H">>,
     <<"AN">>, Rep(LongChain, "M"), <<"A">> \o Rep(LongChain, "H"),
     <<"NA">> \o Rep(LongChain, "H")}

\* a request in progress on a route with chain ch, registered on the root of
\* an Engine on which a template set was loaded (t) or not
CtxInit(ch, t) ==
    /\ heap = IF Len(ch) = 0 THEN <<>> ELSE <<ch>>
    /\ groups = <<NewRoot>>
    /\ handlers404 = NilSlice
    /\ chain = IF Len(ch) = 0 THEN NilSlice ELSE [arr |-> 1, len |-> Len(ch)]
    /\ routes = <<[path |-> <<"a">>, group |-> 1, own |-> ch, chain |-> chain]>>
    /\ call = NoCall
    /\ crashed = FALSE
    /\ usedAfter = {}
    /\ HTMLTemplates = t
    /\ phase = "run"
    /\ kind = [k |-> "route", route |-> 1]
    /\ index = -1
    /\ Keys = NilKeys
    /\ Errors = <<>>
    /\ status = 0
    /\ stack = <<Frame("route", "", -1, 0)>>
    /\ panicked = ""
    /\ notFound = FALSE
    /\ ret = NilVal
    /\ log = <<>>
    /\ budget = MaxOps

InitCtx == \E ch \in CtxChains : CtxInit(ch, FALSE)

NextCtx ==
    \/ CallNext
    \/ NextLoop
    \/ Return
    \/ \E code \in WriteCodes : WriteHeader(code)
    \/ \E code \in AbortCodes : Abort(code)
    \/ \E err \in Errs, meta \in Metas : Error(err, meta)
    \/ \E code \in FailCodes, err \in Errs : Fail(code, err)
    \/ \E key \in KeyNames, value \in Vals : Set(key, value)
    \/ \E key \in KeyNames : Get(key)
    \/ ServeDone

SpecCtx == InitCtx /\ [][NextCtx]_vars

(***************************************************************************)
(* Specification of one Context whose handlers parse the body and emit the *)
(* response: EnsureBody, JSON, XML, HTML next to the flow operations        *)
(***************************************************************************)
EncChains == {<<"X">>, <<"X", "X">>, <<"M", "X", "H">>}

InitEnc == \E ch \in EncChains, t \in BOOLEAN : CtxInit(ch, t)

NextEnc ==
    \/ CallNext
    \/ NextLoop
    \/ Return
    \/ \E code \in WriteCodes : WriteHeader(code)
    \/ \E code \in AbortCodes : Abort(code)
    \/ \E err \in Errs, meta \in Metas : Error(err, meta)
    \/ \E item \in Items : EnsureBody(item)
    \/ \E code \in EmitCodes, obj \in Objs : JSON(code, obj)
    \/ \E code \in EmitCodes, obj \in Objs : XML(code, obj)
    \/ \E code \in EmitCodes, name \in TemplateNames, data \in Objs :
          HTML(code, name, data)
    \/ ServeDone

SpecEnc == InitEnc /\ [][NextEnc]_vars

(***************************************************************************)
(* Properties                                                              *)
(***************************************************************************)
Last(q) == q[Len(q)]

\* the positions of the handlers invoked so far, in order of invocation
CallsOf(l) ==
    LET c == SelectSeq(l, LAMBDA e : e.ev = "call")
    IN  [i \in 1..Len(c) |-> c[i].pos]

Upto(n) == [i \in 1..n |-> i - 1]

IsPrefix(a, b) == Len(a) <= Len(b) /\ SubSeq(b, 1, Len(a)) = a

Has(l, e) == \E j \in DOMAIN l : l[j].ev = e

\* the middleware of g's ancestors and of g, root first
RECURSIVE RootToLeaf(_)
RootToLeaf(g) ==
    IF g = 0 THEN <<>>
    ELSE RootToLeaf(groups[g].parent) \o Elems(heap, groups[g].Handlers)

\* g is a grandchild of the root, with M1 on the root, M2 on the child and
\* M3 on the grandchild
Hierarchy3(g) ==
    /\ g # 0 /\ Parent(g) # 0 /\ Parent(Parent(g)) = 1
    /\ Elems(heap, groups[1].Handlers) = <<"M1">>
    /\ Elems(heap, groups[Parent(g)].Handlers) = <<"M2">>
    /\ Elems(heap, groups[g].Handlers) = <<"M3">>

\* the chain of the route that the step from call to call' registers
Registered == Elems(heap', routes'[Len(routes')].chain)

\* C1: Handle on a grandchild (middleware on root, child and grandchild)
\* completes and registers the chain root middleware, child middleware,
\* grandchild middleware, route handlers; a request on such a route invokes
\* every handler of its chain once, in that order.
C1_ChainOrder ==
    [][/\ (call.active /\ Hierarchy3(call.g0)) =>
             /\ ~crashed'
             /\ (~call'.active =>
                    Registered = RootToLeaf(call.g0) \o call.hs0)
       /\ (phase' = "done" /\ kind'.k = "route"
             /\ Hierarchy3(routes'[kind'.route].group)) =>
             CallsOf(log') = Upto(chain'.len)]_vars

\* C2: Handle on a group created before a Use on one of its ancestors
\* completes, and the chain it registers starts with the root's middleware
\* as it is at registration, late additions included.
C2_LateUse ==
    [][(call.active /\ call.g0 \in usedAfter) =>
          /\ ~crashed'
          /\ (~call'.active =>
                 /\ IsPrefix(Elems(heap, groups[1].Handlers), Registered)
                 /\ Registered = RootToLeaf(call.g0) \o call.hs0)]_vars

\* C7: when handle404 is done, every handler of the chain (root middleware,
\* then fallback chain) has been invoked unless one called Abort, and the
\* bare not-found response was emitted exactly when no handler wrote a
\* status; without fallback chain and root middleware the response is the
\* bare not-found one and no status was recorded.
C7_NotFoundFallback ==
    (phase = "done" /\ kind.k = "404") =>
        /\ chain.len = groups[1].Handlers.len + handlers404.len
        /\ ~Has(log, "abort") => CallsOf(log) = Upto(chain.len)
        /\ notFound <=> ~(Has(log, "status") \/ Has(log, "abort"))
        /\ notFound <=> ~Written
        /\ (handlers404.len = 0 /\ groups[1].Handlers.len = 0) =>
              (notFound /\ status = 0 /\ CallsOf(log) = <<>>)

C7_Witness ==
    /\ phase = "done" /\ kind.k = "404"
    /\ notFound
    /\ handlers404.len > 0 /\ groups[1].Handlers.len > 0
    /\ Len(CallsOf(log)) = chain.len

\* C8: Group(g, ...) creates a group whose Parent() is g, the root's
\* Parent() is absent, and no step changes the parent of an existing group.
C8_ParentLinkage ==
    /\ Parent(1) = 0
    /\ [][/\ \A g \in DOMAIN groups, c \in Components, hs \in GroupArgs :
                Group(g, c, hs) => groups'[Len(groups')].parent = g
          /\ \A i \in DOMAIN groups :
                i \in DOMAIN groups' /\ Parent(i)' = Parent(i)]_vars

C8_Witness ==
    /\ Len(groups) = 3 /\ Parent(3) = 2 /\ Parent(2) = 1 /\ Parent(1) = 0
    /\ groups[1].Handlers.len > 0
    /\ Len(routes) > 0

\* C3: after the handler at position i has called Abort(code), no handler
\* at a position greater than i is invoked, and right after the call the
\* recorded status is code.
C3_AbortShortCircuit ==
    /\ \A j, k \in DOMAIN log :
          (j < k /\ log[j].ev = "abort" /\ log[k].ev = "call")
             => log[k].pos <= log[j].pos
    /\ (log # <<>> /\ Last(log).ev = "abort") => status = Last(log).code

\* C4: once Abort has been called, in every later state the loop condition
\* index < N is false, no handler is invoked and no handler index is
\* dereferenced, however many Next() calls follow.
C4_AbortPermanent ==
    (chain.len <= AbortIndex /\ Has(log, "abort")) =>
        /\ ~(index < Int8(chain.len))
        /\ panicked # "index out of range"
        /\ \A j, k \in DOMAIN log :
              (j < k /\ log[j].ev = "abort") => log[k].ev # "call"

SetsOf(k, n) == {j \in 1..n : log[j].ev = "set" /\ log[j].key = k}

LastSetOf(k, n) ==
    LET j == CHOOSE j \in SetsOf(k, n) : \A i \in SetsOf(k, n) : i <= j
    IN  log[j].val

\* C6: Get(k) returns the value most recently Set for k, which is then not
\* nil; it panics when k was never set (the store allocated or not) or
\* was last set to nil; and the store holds exactly the last value Set for
\* every key, so that no Get changes it.
C6_SetGet ==
    /\ \A j \in DOMAIN log :
          /\ log[j].ev = "get" =>
                /\ SetsOf(log[j].key, j) # {}
                /\ log[j].val = LastSetOf(log[j].key, j)
                /\ log[j].val # NilVal
          /\ log[j].ev = "getpanic" =>
                \/ SetsOf(log[j].key, j) = {}
                \/ LastSetOf(log[j].key, j) = NilVal
    /\ (log # <<>> /\ Last(log).ev = "get") => ret = Last(log).val
    /\ Keys.alloc <=> Has(log, "set")
    /\ \A k \in KeyNames :
          IF SetsOf(k, Len(log)) = {}
          THEN k \notin DOMAIN Keys.m
          ELSE k \in DOMAIN Keys.m /\ Keys.m[k] = LastSetOf(k, Len(log))

C6_Witness ==
    /\ Len(log) >= 3
    /\ \E j \in DOMAIN log : \E i \in 1..(j - 1) : \E h \in 1..(i - 1) :
          /\ log[j].ev = "get" /\ log[j].val = "v2"
          /\ log[i].ev = "set" /\ log[i].key = log[j].key /\ log[i].val = "v2"
          /\ log[h].ev = "set" /\ log[h].key = log[j].key /\ log[h].val = "v1"

\* no Abort, no panic in Get, and no caller calls Next() more than once
CooperativeRun ==
    /\ ~Has(log, "abort")
    /\ ~Has(log, "getpanic")
    /\ \A j, k \in DOMAIN log :
          (log[j].ev = "next" /\ log[k].ev = "next" /\ log[j].pos = log[k].pos)
             => j = k

\* C9: in a run without Abort in which every handler calls Next() at most
\* once, the handlers are invoked in index order 0, 1, ..., each once, the
\* run does not panic, and when the initial Next() has returned all N
\* handlers have been invoked.
C9_DrainsAll ==
    CooperativeRun =>
        /\ CallsOf(log) = Upto(Len(CallsOf(log)))
        /\ phase # "panicked"
        /\ phase = "done" => Len(CallsOf(log)) = chain.len

\* C10 as stated: after the handler at position i has returned without
\* calling Next() or Abort, no handler at a position greater than i is
\* invoked.
C10_PlainReturnEndsChain ==
    \A j, k \in DOMAIN log :
        (j < k /\ log[j].ev = "plainret" /\ log[k].ev = "call")
           => log[k].pos <= log[j].pos

\* C10 as amended: when the handler at position i returns without having
\* called Next() or Abort, the loop that invoked it moves the cursor to
\* i + 1 and, when i + 1 is below the loop bound int8(N), the very next
\* handler invoked is the one at position i + 1; the chain goes on.
C10_PlainReturnContinues ==
    \A j \in DOMAIN log :
        log[j].ev = "plainret" =>
            LET i == log[j].pos IN
            IF j = Len(log)
            THEN /\ index = i + 1
                 /\ (phase = "run" /\ i + 1 < Int8(chain.len)) =>
                        (Top.kind = "next" /\ i + 1 < chain.len)
            ELSE i + 1 < Int8(chain.len) =>
                    log[j + 1] = Event("call", i + 1, "", "", 0)

C10_Witness ==
    \E j \in DOMAIN log :
        /\ log[j].ev = "plainret"
        /\ j < Len(log)
        /\ log[j + 1].ev = "call" /\ log[j + 1].pos = log[j].pos + 1
        /\ index # AbortIndex

\* C11: a step of Error(err, meta) appends exactly the entry (message of
\* err, meta) at the end of the error list and leaves the cursor, the store
\* and the recorded status unchanged; in every step the error list before is
\* a prefix of the error list after; and the steps of Next (entry, loop,
\* return of a handler), Abort, Set and Get leave the error list unchanged.
C11_ErrorAppendOnly ==
    [][/\ \A err \in Errs, meta \in Metas :
             Error(err, meta) =>
                /\ Errors' = Errors \o <<[Message |-> err.msg, Meta |-> meta]>>
                /\ index' = index
                /\ Keys' = Keys
                /\ status' = status
       /\ IsPrefix(Errors, Errors')
       /\ (\/ CallNext \/ NextLoop \/ Return
           \/ \E code \in AbortCodes : Abort(code)
           \/ \E key \in KeyNames, value \in Vals : Set(key, value)
           \/ \E key \in KeyNames : Get(key)) => Errors' = Errors]_vars

C11_Witness ==
    /\ Len(Errors) = 2
    /\ Errors[1] = [Message |-> "boom", Meta |-> "Operation aborted"]
    /\ Errors[2] = [Message |-> "boom", Meta |-> "m1"]
    /\ index = AbortIndex /\ status = 500
    /\ Keys.alloc

EmitsAsClaimed(code, err) ==
    /\ Len(log') > Len(log)
    /\ log'[Len(log) + 1] = Event("status", Top.pos, "", "", code)
    /\ index' = index
    /\ phase' = "run"
    /\ IF err.msg # ""
       THEN /\ Len(Errors') = Len(Errors) + 1
            /\ SubSeq(Errors', 1, Len(Errors)) = Errors
            /\ Last(Errors').Message = err.msg
            /\ log' = log \o <<Event("status", Top.pos, "", "", code),
                                Event("status", Top.pos, "", "", 500)>>
            /\ status' = 500
       ELSE /\ Errors' = Errors
            /\ log' = Append(log, Event("status", Top.pos, "", "", code))
            /\ status' = code

C14_DefaultWraps ==
    /\ ~crashed
    /\ phase \in {"run", "done"} =>
          IsPrefix(DefaultMiddleware, Elems(heap, chain))
    /\ phase = "done" => IsPrefix(<<0, 1>>, CallsOf(log))

\* C15: the cursor is -1 until Next is first entered; no step of Next, its
\* entry increment or its loop increment, decreases it; only Abort (alone
\* or within Fail) sets it otherwise, and then to a value past the end of
\* the chain.
C15_CursorMonotone ==
    /\ [](log = <<>> => index = -1)
    /\ [][/\ (CallNext \/ Return) => index' >= index
          /\ (\/ \E code \in AbortCodes : Abort(code)
              \/ \E code \in FailCodes, err \in Errs : Fail(code, err))
                => index' >= chain.len
          /\ index' # index =>
                \/ CallNext \/ Return
                \/ \E code \in AbortCodes : Abort(code)
                \/ \E code \in FailCodes, err \in Errs : Fail(code, err)]_vars

\* C16: once a Next() call made by the handler at position i has returned,
\* no handler at a position greater than i is invoked or returns: all the
\* downstream handlers that execute have started and finished before.
C16_NextNests ==
    \A j, k \in DOMAIN log :
        (j < k /\ log[j].ev = "nextret"
               /\ log[k].ev \in {"call", "ret", "plainret"})
           => log[k].pos <= log[j].pos

\* C17: Written() is true exactly when a status was written during the
\* request, and no step changes a status that has been recorded.
C17_StatusOnce ==
    /\ [](Written <=> (Has(log, "status") \/ Has(log, "abort")))
    /\ [][status # 0 => status' = status]_vars

\* the backing array of slice s, the slots past its length included
Backing(h, s) == IF s.arr = 0 THEN <<>> ELSE h[s.arr]

\* the state of the Engine that all requests share
Shared ==
    [middleware |-> [g \in DOMAIN groups |-> Elems(heap, groups[g].Handlers)],
     storage    |-> [g \in DOMAIN groups |-> Backing(heap, groups[g].Handlers)],
     fallback   |-> Elems(heap, handlers404),
     chains     |-> [i \in DOMAIN routes |-> Elems(heap, routes[i].chain)],
     templates  |-> HTMLTemplates]

\* C18: no step of the handling of a request, matched or unmatched, from
\* the construction of its Context to its end, changes the state that the
\* requests share: the groups' middleware lists and their backing storage,
\* the fallback chain, the registered chains.
C18_ServingReadOnly ==
    [][(phase # "idle" \/ phase' # "idle") => Shared' = Shared]_vars

\* C19: a step of Handle, Use, Group or NotFound404 leaves the chain of
\* every route registered before as it is; the chain registered for a
\* route on the root is the root's middleware followed by the route's own
\* handlers; and the steps of Handle leave every group's middleware list
\* unchanged.
C19_ChainFixed ==
    [][(phase = "idle" /\ phase' = "idle") =>
          /\ \A i \in DOMAIN routes :
                /\ i \in DOMAIN routes'
                /\ Elems(heap', routes'[i].chain) = Elems(heap, routes[i].chain)
          /\ (call.active /\ ~call'.active /\ call.g0 = 1) =>
                Registered = Elems(heap, groups[1].Handlers) \o call.hs0
          /\ (call.active \/ call'.active) =>
                \A g \in DOMAIN groups :
                   Elems(heap', groups'[g].Handlers) =
                      Elems(heap, groups[g].Handlers)]_vars

\* the number of groups above g in the tree
RECURSIVE Depth(_)
Depth(g) == IF groups[g].parent = 0 THEN 0 ELSE 1 + Depth(groups[g].parent)

\* C20: while Handle composes a chain, each recursive call of allHandlers
\* is made on the parent of the group the previous one was made on and adds
\* that group's middleware in front, so that the walk is never deeper than
\* the group it started from, and it returns: the process does not die in
\* it.
C20_WalkTerminates ==
    [][call.active =>
          /\ ~crashed'
          /\ call.depth <= Depth(call.g0)
          /\ (call'.active /\ call'.depth = call.depth + 1) =>
                /\ call'.g = Parent(call.g)
                /\ call'.hs = Elems(heap, groups[call.g].Handlers) \o call.hs]_vars

====
